---- MODULE Spec2Model ----
(***************************************************************************)
(* DiscoveryTools (src/src/agents/discover_agent.py): the lazily           *)
(* initialised browser session and its three tool operations               *)
(* take_screenshot, get_interactable_elements and get_page_metadata, with  *)
(* the element scan script the page evaluates.                             *)
(*                                                                         *)
(* A call is a coroutine: it runs atomically from one await to the next.   *)
(* pc[t] names the await task t is suspended at; the action that resumes   *)
(* it draws the collaborator's outcome (success or an exception), performs *)
(* the assignments that follow and initiates the next await.               *)
(***************************************************************************)
EXTENDS Integers, Sequences, FiniteSets, TLC

VARIABLES
    url,            \* self.url
    playwright,     \* self.playwright: 0 is None, else the driver's number
    browser,        \* self.browser: 0 is None, else the browser's number
    page,           \* self.page: 0 is None, else the page's number
    initialized,    \* self._initialized
    pages,          \* the pages created so far: number -> [url]
    nStarted,       \* how many playwright drivers were started
    nLaunched,      \* how many browsers were launched
    pc,             \* per task: the await it is suspended at
    op,             \* per task: the tool operation it runs
    tgt,            \* per task: the page object the pending await was called on
    held,           \* per task: values computed before the pending await
    res,            \* per task: how its last call ended
    nCalls,         \* how many tool calls were started
    nInstances,     \* how many DiscoveryTools were constructed
    fs,             \* the filesystem: path -> the URL whose capture it holds
    shots,          \* the (page URL, returned path) pairs of take_screenshot
    log,            \* the (level, message) pairs logged
    document,       \* the document given to the scan script
    scanned         \* what page.evaluate returned for it

vars == <<url, playwright, browser, page, initialized, pages, nStarted,
          nLaunched, pc, op, tgt, held, res, nCalls, nInstances, fs, shots,
          log, document, scanned>>

sessionVars == <<url, playwright, browser, page, initialized, pages,
                 nStarted, nLaunched, pc, op, tgt, held, res, nCalls,
                 nInstances, fs, shots, log>>

----------------------------------------------------------------------------
(* Bounds *)

MaxElems == 2       \* elements in a scanned document
MaxOver == 2        \* how far a source text may exceed the truncation length
MaxTasks == 2       \* tool calls that may be in flight together
MaxCalls == 2       \* tool calls started in one run
MaxInstances == 2   \* DiscoveryTools objects constructed in one run

(* text.slice(0, 50) *)
SliceLen == 50

----------------------------------------------------------------------------
(* JavaScript values and strings.  A string is a sequence of characters.   *)

NL == "\n"
SP == " "

Str(s) == [k |-> "str", s |-> s, n |-> 0]
Num(n) == [k |-> "num", s |-> <<>>, n |-> n]
Undefined == [k |-> "undefined", s |-> <<>>, n |-> 0]
Null == [k |-> "null", s |-> <<>>, n |-> 0]

(* JavaScript truthiness: '' , 0, undefined and null are falsy *)
Truthy(v) ==
    \/ v.k = "str" /\ Len(v.s) # 0
    \/ v.k = "num" /\ v.n # 0

(* a || b *)
Or(a, b) == IF Truthy(a) THEN a ELSE b

Min(a, b) == IF a < b THEN a ELSE b

(* s.slice(0, n) *)
Slice(s, n) == SubSeq(s, 1, Min(Len(s), n))

(* a replace that matches nothing *)
ReplaceNothing(s) == s

(* s.replace(/\n/g, ' ') *)
ReplaceNewlines(s) == [i \in 1..Len(s) |-> IF s[i] = NL THEN SP ELSE s[i]]

IsSpace(c) == c \in {SP, NL}

RECURSIVE TrimStart(_)
TrimStart(s) ==
    IF s # <<>> /\ IsSpace(Head(s)) THEN TrimStart(Tail(s)) ELSE s

RECURSIVE TrimEnd(_)
TrimEnd(s) ==
    IF s # <<>> /\ IsSpace(s[Len(s)])
    THEN TrimEnd(SubSeq(s, 1, Len(s) - 1))
    ELSE s

(* s.trim() *)
Trim(s) == TrimEnd(TrimStart(s))

Digits == <<"0", "1", "2", "3", "4", "5", "6", "7", "8", "9">>

(* String(n) for a non-negative integer: its decimal digits *)
RECURSIVE String(_)
String(n) ==
    IF n < 10 THEN Digits[n + 1] ELSE String(n \div 10) \o Digits[(n % 10) + 1]

----------------------------------------------------------------------------
(* Elements of a document.  An attribute is absent or carries a value.     *)

NoAttr == [has |-> FALSE, v |-> ""]
Attr(v) == [has |-> TRUE, v |-> v]
NoLabel == [has |-> FALSE, v |-> <<>>]
Label(s) == [has |-> TRUE, v |-> s]

(* el.getAttribute(name): null when the attribute is absent *)
getAttribute(a) == IF a.has THEN Str(a.v) ELSE Null

Tags == {"button", "a", "input", "select", "textarea"}

(* line 95-106: the combined selector *)
combined_selector(el) ==
    \/ el.tag \in Tags
    \/ el.role.has /\ el.role.v = "button"
    \/ el.role.has /\ el.role.v = "link"
    \/ el.onclick.has
    \/ el.tabindex.has /\ el.tabindex.v # "-1"

(* document.querySelectorAll(selector): the matches in document order *)
querySelectorAll(doc) == SelectSeq(doc, combined_selector)

(* isVisible without its opacity clause *)
isVisibleNoOpacity(elem) ==
    /\ elem.display # "none"
    /\ elem.visibility # "hidden"
    /\ elem.offsetWidth > 0
    /\ elem.offsetHeight > 0

(* lines 114-122 *)
isVisible(elem) ==
    /\ elem.display # "none"
    /\ elem.visibility # "hidden"
    /\ elem.opacity # "0"
    /\ elem.offsetWidth > 0
    /\ elem.offsetHeight > 0

(* the scoring without the type test *)
scoreByTagOnly(el) ==
    IF el.tag = "button" \/ el.tag = "a"
    THEN 10
    ELSE IF el.tag = "input" \/ el.tag = "select" \/ el.tag = "textarea"
         THEN 8
         ELSE 5

(* lines 127-135 *)
score(el) ==
    LET type == Or(getAttribute(el.type), Str(""))
    IN  IF el.tag = "button" \/ el.tag = "a" \/ type.s = "submit"
        THEN 10
        ELSE IF el.tag = "input" \/ el.tag = "select" \/ el.tag = "textarea"
             THEN 8
             ELSE 5

(* line 137: el.innerText || el.value || el.getAttribute('aria-label') || '' *)
rawText(el) ==
    Or(Or(Or(el.innerText, el.value), getAttribute(el.ariaLabel)), Str(<<>>))

(* line 138: only a string has slice; a number raises a TypeError *)
TextThrows(el) == rawText(el).k # "str"

text(el) == Trim(ReplaceNewlines(Slice(rawText(el).s, SliceLen)))

(* line 145: el.disabled || false *)
disabled(el) == IF el.disabled = "true" THEN TRUE ELSE FALSE

Descriptor(el, idCounter) ==
    [id |-> String(idCounter),
     text |-> text(el),
     tag |-> el.tag,
     visible |-> TRUE,
     disabled |-> disabled(el),
     score |-> score(el)]

(* the loop with the counter advanced for skipped elements too *)
RECURSIVE ScanLoopCountingAll(_, _, _, _)
ScanLoopCountingAll(elements, i, idCounter, results) ==
    IF i > Len(elements)
    THEN results
    ELSE IF ~isVisible(elements[i])
         THEN ScanLoopCountingAll(elements, i + 1, idCounter + 1, results)
         ELSE ScanLoopCountingAll(elements, i + 1, idCounter + 1,
                       Append(results, Descriptor(elements[i], idCounter)))

(* lines 124-148: the loop over the matched elements *)
RECURSIVE ScanLoop(_, _, _, _)
ScanLoop(elements, i, idCounter, results) ==
    IF i > Len(elements)
    THEN results
    ELSE IF ~isVisible(elements[i])
         THEN ScanLoop(elements, i + 1, idCounter, results)
         ELSE ScanLoop(elements, i + 1, idCounter + 1,
                       Append(results, Descriptor(elements[i], idCounter)))

(* the script as page.evaluate runs it: its value, or the exception a      *)
(* visible element with a non-string text source raises                    *)
js_script(doc) ==
    LET elements == querySelectorAll(doc)
    IN  IF \E i \in 1..Len(elements) :
               isVisible(elements[i]) /\ TextThrows(elements[i])
        THEN [ok |-> FALSE, value |-> <<>>]
        ELSE [ok |-> TRUE, value |-> ScanLoop(elements, 1, 0, <<>>)]

(* lines 153-159: what get_interactable_elements returns once evaluate has *)
(* ended: the script's list, or [] when evaluate raised                    *)
EvaluateFailed(ok, doc) == ~ok \/ ~js_script(doc).ok

elements_returned(ok, doc) ==
    IF EvaluateFailed(ok, doc) THEN <<>> ELSE js_script(doc).value

----------------------------------------------------------------------------
(* The documents the scan is checked on.                                   *)

El(tag, type, role, onclick, tabindex, innerText, value, ariaLabel, dis) ==
    [tag |-> tag, type |-> type, role |-> role, onclick |-> onclick,
     tabindex |-> tabindex, innerText |-> Str(innerText), value |-> value,
     ariaLabel |-> ariaLabel, disabled |-> dis,
     display |-> "block", visibility |-> "visible", opacity |-> "1",
     offsetWidth |-> 10, offsetHeight |-> 10]

Button == El("button", NoAttr, NoAttr, NoAttr, NoAttr,
             <<"O", "K">>, Str(<<>>), NoLabel, "false")
Anchor == El("a", NoAttr, Attr("link"), NoAttr, NoAttr,
             <<"g", "o">>, Undefined, NoLabel, "undefined")
InputText == El("input", Attr("text"), NoAttr, NoAttr, NoAttr,
                <<>>, Str(<<"v">>), Label(<<"l">>), "true")
InputSubmit == El("input", Attr("submit"), NoAttr, NoAttr, NoAttr,
                  <<>>, Str(<<"s">>), NoLabel, "false")
Select == El("select", NoAttr, NoAttr, NoAttr, NoAttr,
             <<"o", NL, "p">>, Str(<<"o">>), NoLabel, "false")
TextArea == El("textarea", NoAttr, NoAttr, NoAttr, Attr("-1"),
               <<>>, Str(<<>>), NoLabel, "false")
DivRole == El("div", NoAttr, Attr("button"), NoAttr, NoAttr,
              <<"r">>, Undefined, NoLabel, "undefined")
DivSubmit == El("div", Attr("submit"), NoAttr, Attr("f()"), NoAttr,
                <<>>, Undefined, Label(<<"d">>), "undefined")
SpanNoTab == El("span", NoAttr, NoAttr, NoAttr, Attr("-1"),
                <<"n">>, Undefined, NoLabel, "undefined")
DivPlain == El("div", NoAttr, Attr("img"), NoAttr, NoAttr,
               <<"p">>, Undefined, NoLabel, "undefined")
(* <li tabindex="0" value="3">: its value is a number *)
ListItem == El("li", NoAttr, NoAttr, NoAttr, Attr("0"),
               <<>>, Num(3), NoLabel, "undefined")

Kinds == {Button, Anchor, InputText, InputSubmit, Select, TextArea, DivRole,
          DivSubmit, SpanNoTab, DivPlain, ListItem}

(* the rendering of an element: shown, or failing one visibility clause *)
Shown(el) == el
DisplayNone(el) == [el EXCEPT !.display = "none", !.offsetWidth = 0,
                              !.offsetHeight = 0]
Hidden(el) == [el EXCEPT !.visibility = "hidden"]
Transparent(el) == [el EXCEPT !.opacity = "0"]
NoWidth(el) == [el EXCEPT !.offsetWidth = 0]
NoHeight(el) == [el EXCEPT !.offsetHeight = 0]

Renderings(el) == {Shown(el), DisplayNone(el), Hidden(el), Transparent(el),
                   NoWidth(el), NoHeight(el)}

(* every kind shown, and three kinds in every rendering *)
Elements == Kinds \cup UNION {Renderings(k) : k \in {Button, InputText,
                                                        DivRole}}

Documents == UNION {[1..n -> Elements] : n \in 0..MaxElems}

(* source texts around the truncation length: "x" everywhere but at the    *)
(* first two and the last position and on either side of the cut           *)
HotPositions(n) == {1, 2, SliceLen, SliceLen + 1, n} \cap (1..n)

TextLengths == (0..3) \cup ((SliceLen - 1)..(SliceLen + MaxOver))

TextsOfLength(n) ==
    {[i \in 1..n |-> IF i \in DOMAIN h THEN h[i] ELSE "x"] :
        h \in [HotPositions(n) -> {"x", SP, NL}]}

Texts == UNION {TextsOfLength(n) : n \in TextLengths}

ShortValues == {Str(<<>>), Str(<<"v">>), Num(0), Num(3), Undefined}
ShortLabels == {NoLabel, Label(<<>>), Label(<<"l">>)}

Labelled(innerText, value, ariaLabel) ==
    El("div", NoAttr, NoAttr, Attr("f()"), NoAttr,
       innerText, value, ariaLabel, "undefined")

(* one-element documents whose text comes from each of the three sources *)
TextDocuments ==
    {<<Labelled(s, v, l)>> : s \in Texts, v \in ShortValues, l \in ShortLabels}
    \cup {<<Labelled(<<>>, Str(s), l)>> : s \in Texts, l \in ShortLabels}
    \cup {<<Labelled(<<>>, v, Label(s))>> :
               s \in Texts, v \in {Str(<<>>), Num(0), Undefined}}

----------------------------------------------------------------------------
(* URLs, and the web the browser navigates.                                *)

Url(scheme, host, port) == [scheme |-> scheme, host |-> host, port |-> port]

Blank == Url("about", "", 0)                    \* about:blank
SiteA == Url("http", "a.com", 0)                \* http://a.com/
SiteAPort == Url("http", "a.com", 8080)         \* http://a.com:8080/
SiteUnknown == Url("http", "unknown_host", 0)   \* http://unknown_host/
SiteFile == Url("file", "", 0)                  \* file:///index.html

Targets == {SiteA, SiteAPort, SiteUnknown, SiteFile}

(* the document and title each URL serves *)
DocumentAt(u) ==
    CASE u = SiteA -> <<Button, DisplayNone(InputText), Transparent(Anchor)>>
      [] u = SiteAPort -> <<DivPlain, Hidden(Select)>>
      [] u = SiteUnknown -> <<InputText, ListItem>>
      [] u = SiteFile -> <<Anchor, InputSubmit>>
      [] OTHER -> <<>>

TitleAt(u) ==
    CASE u = SiteA -> "A"
      [] u = SiteAPort -> "A admin"
      [] u = SiteUnknown -> "Unknown"
      [] u = SiteFile -> "index"
      [] OTHER -> ""

(* urlparse(u).hostname: the host without scheme and port, None if empty *)
None == [none |-> TRUE, v |-> ""]
Some(v) == [none |-> FALSE, v |-> v]

urlparse_hostname(u) == IF u.host = "" THEN None ELSE Some(u.host)

(* line 75: parsed_url.hostname or "unknown_host" *)
hostname(u) ==
    LET h == urlparse_hostname(u)
    IN  IF h.none \/ h.v = "" THEN "unknown_host" ELSE h.v

(* os.getcwd() *)
getcwd == "/work"

(* Path / name, and str(path) *)
PathJoin(dir, name) == dir \o "/" \o name

(* a capture directory that is not partitioned by host *)
base_dir_shared(u) == PathJoin(getcwd, "assets")

(* line 80 *)
base_dir(u) == PathJoin(PathJoin(getcwd, "assets"), hostname(u))

(* lines 83-84 *)
screenshot_path(u) == PathJoin(base_dir(u), "screenshot.png")

(* a filesystem entry: a directory, or the capture of the page at a URL *)
Dir == [kind |-> "dir", of |-> Blank]
File(u) == [kind |-> "file", of |-> u]

(* base_dir.mkdir(parents=True, exist_ok=True) on filesystem f *)
mkdir(f, u) ==
    LET new == {PathJoin(getcwd, "assets"), base_dir(u)} \ DOMAIN f
    IN  [p \in DOMAIN f \cup new |-> IF p \in DOMAIN f THEN f[p] ELSE Dir]

(* page.screenshot(path=p) of a page showing u: the file is (re)written *)
WriteFile(f, p, u) ==
    [q \in DOMAIN f \cup {p} |-> IF q = p THEN File(u) ELSE f[q]]

----------------------------------------------------------------------------
(* The session: one DiscoveryTools object and the tool calls on it.        *)

Tasks == 1..MaxTasks

Operations == {"take_screenshot", "get_interactable_elements",
               "get_page_metadata"}

NoHeld == [path |-> "", url |-> Blank]

NoRes == [status |-> "none", src |-> "", failed |-> {}, path |-> "",
          elements |-> <<>>, metadata |-> [url |-> Blank, title |-> ""]]

Quiet == \A t \in Tasks : pc[t] \in {"idle", "done"}

(* only the navigation awaits guarded *)
CaughtInNavigationOnly(step) == step \in {"goto", "wait_for_load_state"}

(* only the evaluation guarded *)
CaughtInEvaluateOnly(step) == step = "evaluate"

(* the awaits whose exceptions a try/except of the code catches:           *)
(* lines 56-64 (goto, wait_for_load_state) and 153-159 (evaluate)          *)
Caught(step) == step \in {"goto", "wait_for_load_state", "evaluate"}

(* an exception leaves the call: nothing between the await and the tool's  *)
(* caller catches it                                                       *)
Raise(t, step, f) ==
    /\ pc' = [pc EXCEPT ![t] = "done"]
    /\ res' = [res EXCEPT ![t] = [NoRes EXCEPT !.status = "raised",
                                               !.src = step,
                                               !.failed = f \cup {step}]]

Return(t, r) ==
    /\ pc' = [pc EXCEPT ![t] = "done"]
    /\ res' = [res EXCEPT ![t] = [r EXCEPT !.status = "returned"]]

(* lines 71-86: the part of take_screenshot up to page.screenshot *)
take_screenshot_body(t, pgs, f, lg, mk) ==
    LET u == pgs[page].url
    IN  /\ log' = lg
        /\ IF mk
           THEN /\ fs' = mkdir(fs, u)
                /\ pc' = [pc EXCEPT ![t] = "screenshot"]
                /\ tgt' = [tgt EXCEPT ![t] = page]
                /\ held' = [held EXCEPT ![t] = [path |-> screenshot_path(u),
                                                url |-> u]]
                /\ res' = [res EXCEPT ![t] = [NoRes EXCEPT !.failed = f]]
           ELSE /\ Raise(t, "mkdir", f)
                /\ UNCHANGED <<fs, tgt, held>>

(* lines 93-154: the part of get_interactable_elements up to evaluate *)
get_interactable_elements_body(t, pgs, f, lg) ==
    /\ log' = lg \cup {<<"info", "Scanning for interactable elements...">>}
    /\ pc' = [pc EXCEPT ![t] = "evaluate"]
    /\ tgt' = [tgt EXCEPT ![t] = page]
    /\ res' = [res EXCEPT ![t] = [NoRes EXCEPT !.failed = f]]
    /\ UNCHANGED <<fs, held>>

(* line 165: the part of get_page_metadata up to page.title() *)
get_page_metadata_body(t, pgs, f, lg) ==
    /\ log' = lg
    /\ pc' = [pc EXCEPT ![t] = "title"]
    /\ tgt' = [tgt EXCEPT ![t] = page]
    /\ held' = [held EXCEPT ![t] = [path |-> "", url |-> pgs[page].url]]
    /\ res' = [res EXCEPT ![t] = [NoRes EXCEPT !.failed = f]]
    /\ UNCHANGED fs

(* what follows `await self._ensure_initialized()` in operation o *)
Body(t, o, pgs, f, lg, mk) ==
    CASE o = "take_screenshot" -> take_screenshot_body(t, pgs, f, lg, mk)
      [] o = "get_interactable_elements" ->
            get_interactable_elements_body(t, pgs, f, lg)
      [] o = "get_page_metadata" -> get_page_metadata_body(t, pgs, f, lg)

(* lines 41-46, 185: a DiscoveryTools is constructed for a URL *)
NewInstance(u) ==
    /\ Quiet
    /\ nInstances < MaxInstances
    /\ nInstances' = nInstances + 1
    /\ url' = u
    /\ playwright' = 0
    /\ browser' = 0
    /\ page' = 0
    /\ initialized' = FALSE
    /\ pages' = <<>>
    /\ nStarted' = 0
    /\ nLaunched' = 0
    /\ pc' = [t \in Tasks |-> "idle"]
    /\ op' = [t \in Tasks |-> "none"]
    /\ tgt' = [t \in Tasks |-> 0]
    /\ held' = [t \in Tasks |-> NoHeld]
    /\ res' = [t \in Tasks |-> NoRes]
    /\ UNCHANGED <<nCalls, fs, shots, log, document, scanned>>

(* a tool is called: lines 49-53, or the tool's body when initialised *)
Call(t, o, mk) ==
    /\ pc[t] \in {"idle", "done"}
    /\ nCalls < MaxCalls
    /\ nCalls' = nCalls + 1
    /\ op' = [op EXCEPT ![t] = o]
    /\ IF initialized
       THEN Body(t, o, pages, {}, log, mk)
       ELSE /\ pc' = [pc EXCEPT ![t] = "start"]
            /\ res' = [res EXCEPT ![t] = NoRes]
            /\ log' = log \cup {<<"info", "Launching browser">>}
            /\ UNCHANGED <<fs, tgt, held>>
    /\ UNCHANGED <<url, playwright, browser, page, initialized, pages,
                   nStarted, nLaunched, nInstances, shots, document, scanned>>

(* line 53: async_playwright().start() ends; line 54 is initiated *)
StartDone(t, ok) ==
    /\ pc[t] = "start"
    /\ IF ok
       THEN /\ nStarted' = nStarted + 1
            /\ playwright' = nStarted + 1
            /\ pc' = [pc EXCEPT ![t] = "launch"]
            /\ UNCHANGED res
       ELSE /\ Raise(t, "start", res[t].failed)
            /\ UNCHANGED <<nStarted, playwright>>
    /\ UNCHANGED <<url, browser, page, initialized, pages, nLaunched, op, tgt,
                   held, nCalls, nInstances, fs, shots, log, document,
                   scanned>>

(* line 54: chromium.launch() ends; line 55 is initiated on the browser *)
LaunchDone(t, ok) ==
    /\ pc[t] = "launch"
    /\ IF ok
       THEN /\ nLaunched' = nLaunched + 1
            /\ browser' = nLaunched + 1
            /\ pc' = [pc EXCEPT ![t] = "new_page"]
            /\ UNCHANGED res
       ELSE /\ Raise(t, "launch", res[t].failed)
            /\ UNCHANGED <<nLaunched, browser>>
    /\ UNCHANGED <<url, playwright, page, initialized, pages, nStarted, op,
                   tgt, held, nCalls, nInstances, fs, shots, log, document,
                   scanned>>

(* line 55: new_page() ends; line 57 is initiated on the new self.page *)
NewPageDone(t, ok) ==
    /\ pc[t] = "new_page"
    /\ IF ok
       THEN /\ pages' = Append(pages, [url |-> Blank])
            /\ page' = Len(pages) + 1
            /\ pc' = [pc EXCEPT ![t] = "goto"]
            /\ tgt' = [tgt EXCEPT ![t] = Len(pages) + 1]
            /\ UNCHANGED res
       ELSE /\ Raise(t, "new_page", res[t].failed)
            /\ UNCHANGED <<pages, page, tgt>>
    /\ UNCHANGED <<url, playwright, browser, initialized, nStarted, nLaunched,
                   op, held, nCalls, nInstances, fs, shots, log, document,
                   scanned>>

(* lines 57-65: goto ends.  On success line 60 is initiated on self.page;  *)
(* on failure the page has committed the navigation or not, the warning is *)
(* logged, the flag is set and the tool's body runs                        *)
GotoDone(t, ok, committed, mk) ==
    /\ pc[t] = "goto"
    /\ IF ok
       THEN /\ pages' = [pages EXCEPT ![tgt[t]].url = url]
            /\ pc' = [pc EXCEPT ![t] = "wait_for_load_state"]
            /\ tgt' = [tgt EXCEPT ![t] = page]
            /\ UNCHANGED <<initialized, res, held, fs, log>>
       ELSE LET pgs == IF committed
                       THEN [pages EXCEPT ![tgt[t]].url = url]
                       ELSE pages
            IN  /\ pages' = pgs
                /\ IF Caught("goto")
                   THEN /\ initialized' = TRUE
                        /\ Body(t, op[t], pgs, res[t].failed \cup {"goto"},
                                log \cup {<<"warning", "Navigation failed">>},
                                mk)
                   ELSE /\ Raise(t, "goto", res[t].failed)
                        /\ UNCHANGED <<initialized, tgt, held, fs, log>>
    /\ UNCHANGED <<url, playwright, browser, page, nStarted, nLaunched, op,
                   nCalls, nInstances, shots, document, scanned>>

(* lines 60-65: wait_for_load_state ends; the flag is set, the body runs *)
WaitDone(t, ok, mk) ==
    /\ pc[t] = "wait_for_load_state"
    /\ IF ok
       THEN /\ initialized' = TRUE
            /\ Body(t, op[t], pages, res[t].failed, log, mk)
       ELSE IF Caught("wait_for_load_state")
            THEN /\ initialized' = TRUE
                 /\ Body(t, op[t], pages,
                         res[t].failed \cup {"wait_for_load_state"},
                         log \cup {<<"warning", "Timeout waiting">>}, mk)
            ELSE /\ Raise(t, "wait_for_load_state", res[t].failed)
                 /\ UNCHANGED <<initialized, tgt, held, fs, log>>
    /\ UNCHANGED <<url, playwright, browser, page, pages, nStarted, nLaunched,
                   op, nCalls, nInstances, shots, document, scanned>>

(* lines 86-88: page.screenshot ends *)
ScreenshotDone(t, ok) ==
    /\ pc[t] = "screenshot"
    /\ IF ok
       THEN /\ fs' = WriteFile(fs, held[t].path, pages[tgt[t]].url)
            /\ log' = log \cup {<<"info", "Screenshot saved">>}
            /\ shots' = shots \cup {[url |-> held[t].url,
                                     path |-> held[t].path]}
            /\ Return(t, [res[t] EXCEPT !.path = held[t].path])
       ELSE /\ Raise(t, "screenshot", res[t].failed)
            /\ UNCHANGED <<fs, log, shots>>
    /\ UNCHANGED <<url, playwright, browser, page, initialized, pages,
                   nStarted, nLaunched, op, tgt, held, nCalls, nInstances,
                   document, scanned>>

(* lines 153-159: page.evaluate ends, by itself or by the script's error *)
EvaluateDone(t, ok) ==
    LET doc == DocumentAt(pages[tgt[t]].url)
    IN  /\ pc[t] = "evaluate"
        /\ IF ~EvaluateFailed(ok, doc)
           THEN /\ log' = log \cup {<<"info", "Found elements">>}
                /\ Return(t, [res[t] EXCEPT
                                 !.elements = elements_returned(ok, doc)])
           ELSE IF Caught("evaluate")
                THEN /\ log' = log \cup {<<"error", "Error getting elements">>}
                     /\ Return(t, [res[t] EXCEPT
                                      !.failed = @ \cup {"evaluate"},
                                      !.elements = elements_returned(ok, doc)])
                ELSE /\ Raise(t, "evaluate", res[t].failed)
                     /\ UNCHANGED log
        /\ UNCHANGED <<url, playwright, browser, page, initialized, pages,
                       nStarted, nLaunched, op, tgt, held, nCalls, nInstances,
                       fs, shots, document, scanned>>

(* line 165: page.title() ends *)
TitleDone(t, ok) ==
    /\ pc[t] = "title"
    /\ IF ok
       THEN Return(t, [res[t] EXCEPT
                          !.metadata = [url |-> held[t].url,
                                        title |-> TitleAt(pages[tgt[t]].url)]])
       ELSE Raise(t, "title", res[t].failed)
    /\ UNCHANGED <<url, playwright, browser, page, initialized, pages,
                   nStarted, nLaunched, op, tgt, held, nCalls, nInstances, fs,
                   shots, log, document, scanned>>

NotScanned == [done |-> FALSE, failed |-> FALSE, elements |-> <<>>]

(* lines 153-159 on a given document: evaluate ends, the list is returned *)
ScanPage(ok) ==
    /\ ~scanned.done
    /\ scanned' = [done |-> TRUE, failed |-> EvaluateFailed(ok, document),
                   elements |-> elements_returned(ok, document)]
    /\ UNCHANGED <<sessionVars, document>>

SessionInit ==
    /\ url \in Targets
    /\ playwright = 0
    /\ browser = 0
    /\ page = 0
    /\ initialized = FALSE
    /\ pages = <<>>
    /\ nStarted = 0
    /\ nLaunched = 0
    /\ pc = [t \in Tasks |-> "idle"]
    /\ op = [t \in Tasks |-> "none"]
    /\ tgt = [t \in Tasks |-> 0]
    /\ held = [t \in Tasks |-> NoHeld]
    /\ res = [t \in Tasks |-> NoRes]
    /\ nCalls = 0
    /\ nInstances = 1
    /\ fs = <<>>
    /\ shots = {}
    /\ log = {}

Init ==
    /\ SessionInit
    /\ document = <<>>
    /\ scanned = NotScanned

Step(t) ==
    \/ \E ok \in BOOLEAN : StartDone(t, ok)
    \/ \E ok \in BOOLEAN : LaunchDone(t, ok)
    \/ \E ok \in BOOLEAN : NewPageDone(t, ok)
    \/ \E ok, committed, mk \in BOOLEAN : GotoDone(t, ok, committed, mk)
    \/ \E ok, mk \in BOOLEAN : WaitDone(t, ok, mk)
    \/ \E ok \in BOOLEAN : ScreenshotDone(t, ok)
    \/ \E ok \in BOOLEAN : EvaluateDone(t, ok)
    \/ \E ok \in BOOLEAN : TitleDone(t, ok)

(* one DiscoveryTools: tool calls may interleave at their awaits *)
Next ==
    \/ \E t \in Tasks, o \in Operations, mk \in BOOLEAN : Call(t, o, mk)
    \/ \E t \in Tasks : Step(t)

Spec == Init /\ [][Next]_vars

(* one orchestrator, sequential tool calls: a call starts when none runs;  *)
(* the program may be run again for another URL                            *)
NextSeq ==
    \/ \E u \in Targets : NewInstance(u)
    \/ \E o \in Operations, mk \in BOOLEAN : Quiet /\ Call(1, o, mk)
    \/ Step(1)

SpecSeq == Init /\ [][NextSeq]_vars

(* the scan of one document *)
InitScan ==
    /\ SessionInit
    /\ url = SiteA
    /\ document \in Documents \cup TextDocuments
    /\ scanned = NotScanned

NextScan == \E ok \in BOOLEAN : ScanPage(ok)

SpecScan == InitScan /\ [][NextScan]_vars

----------------------------------------------------------------------------
(* Properties of the scan (SpecScan).                                      *)

ScanSucceeded == scanned.done /\ ~scanned.failed

(* an element matches one of the nine selectors *)
MatchesSelectorList(el) ==
    \/ el.tag \in {"button", "a", "input", "select", "textarea"}
    \/ el.role = Attr("button")
    \/ el.role = Attr("link")
    \/ el.onclick.has
    \/ el.tabindex.has /\ el.tabindex # Attr("-1")

(* an element passes the five visibility clauses *)
PassesFiveClauses(el) ==
    ~(\/ el.display = "none"
      \/ el.visibility = "hidden"
      \/ el.opacity = "0"
      \/ el.offsetWidth <= 0
      \/ el.offsetHeight <= 0)

Qualifies(el) == MatchesSelectorList(el) /\ PassesFiveClauses(el)

(* the visible qualifying elements of the document, in document order *)
Qualifying == SelectSeq(document, Qualifies)

(* C3: a successful scan of a document with N elements that match the      *)
(* selector list and pass all five visibility clauses, and M others,       *)
(* returns exactly N descriptors, each with visible = TRUE.                *)
C3_ExactlyTheVisibleQualifying ==
    ScanSucceeded =>
        /\ Len(scanned.elements) =
               Cardinality({i \in 1..Len(document) : Qualifies(document[i])})
        /\ \A i \in 1..Len(scanned.elements) : scanned.elements[i].visible

(* a successful scan with N = 1 and M = 1, the other element transparent *)
C3_Witness ==
    /\ ScanSucceeded
    /\ Len(document) = 2
    /\ Len(scanned.elements) = 1
    /\ \E i \in 1..2 : MatchesSelectorList(document[i])
                        /\ document[i].opacity = "0"

DecimalNames == <<"0", "1", "2", "3", "4", "5", "6", "7", "8", "9">>

(* C4: in a successful scan result of length N the ids are "0" .. "N-1"    *)
(* in sequence, skipped elements take no id, and the descriptors are in    *)
(* the document order of the visible qualifying elements.                  *)
C4_IdsContiguousInDocumentOrder ==
    ScanSucceeded =>
        /\ Len(scanned.elements) = Len(Qualifying)
        /\ \A i \in 1..Len(scanned.elements) :
               /\ scanned.elements[i].id = DecimalNames[i]
               /\ scanned.elements[i].tag = Qualifying[i].tag

(* a matching but invisible element precedes the one emitted with id "0",  *)
(* whose score is below what a link or button would get                    *)
C4_Witness ==
    /\ ScanSucceeded
    /\ Len(document) = 2
    /\ MatchesSelectorList(document[1]) /\ ~PassesFiveClauses(document[1])
    /\ Len(scanned.elements) = 1
    /\ scanned.elements[1].id = "0"

(* a result of two descriptors in document order with ascending scores *)
C4_OrderWitness ==
    /\ ScanSucceeded
    /\ Len(scanned.elements) = 2
    /\ scanned.elements[1].score < scanned.elements[2].score

(* the score the rule gives an element, from its tag and type alone *)
RuleScore(tag, type) ==
    IF tag \in {"button", "a"} \/ type = Attr("submit")
    THEN 10
    ELSE IF tag \in {"input", "select", "textarea"} THEN 8 ELSE 5

(* C5: every returned descriptor's score is 10 for a button, a link or a   *)
(* type attribute of submit, else 8 for input, select or textarea, else 5. *)
C5_ScoreFromTagAndType ==
    ScanSucceeded /\ Len(scanned.elements) = Len(Qualifying) =>
        \A i \in 1..Len(scanned.elements) :
            /\ scanned.elements[i].score \in {5, 8, 10}
            /\ scanned.elements[i].score =
                   RuleScore(Qualifying[i].tag, Qualifying[i].type)

(* an input of type submit scored 10 beside an input of type text scored 8 *)
C5_Witness ==
    /\ ScanSucceeded
    /\ Len(scanned.elements) = 2
    /\ \E i, j \in 1..2 :
           /\ scanned.elements[i].tag = "input"
           /\ scanned.elements[j].tag = "input"
           /\ scanned.elements[i].score = 10
           /\ scanned.elements[j].score = 8

(* the first non-empty of inner text, form value and aria-label, else '' *)
SourceText(el) ==
    IF el.innerText.s # <<>> THEN el.innerText.s
    ELSE IF el.value.k = "str" /\ el.value.s # <<>> THEN el.value.s
    ELSE IF el.ariaLabel.has /\ el.ariaLabel.v # <<>> THEN el.ariaLabel.v
    ELSE <<>>

Spaced(s) == [i \in 1..Len(s) |-> IF s[i] = "\n" THEN " " ELSE s[i]]

(* t is a stretch of the first 50 characters of s, newlines spaced *)
TakenFrom(t, s) ==
    \E a \in 1..(Len(s) + 1) :
        LET b == a + Len(t) - 1
        IN  b <= 50 /\ b <= Len(s) /\ t = Spaced(SubSeq(s, a, b))

(* C6: every returned text is taken from the first non-empty source, is at *)
(* most 50 characters long and holds no newline.                           *)
C6_TextBoundedNoNewline ==
    ScanSucceeded /\ Len(scanned.elements) = Len(Qualifying) =>
        \A i \in 1..Len(scanned.elements) :
            LET t == scanned.elements[i].text
            IN  /\ Len(t) <= 50
                /\ \A j \in 1..Len(t) : t[j] # "\n"
                /\ TakenFrom(t, SourceText(Qualifying[i]))

(* an inner text longer than 50 characters with a newline inside the kept  *)
(* part and one right after the cut                                        *)
C6_Witness ==
    /\ ScanSucceeded
    /\ Len(document) = 1
    /\ Len(scanned.elements) = 1
    /\ Len(document[1].innerText.s) > 50
    /\ document[1].innerText.s[2] = "\n"
    /\ document[1].innerText.s[51] = "\n"
    /\ Len(scanned.elements[1].text) = 50

----------------------------------------------------------------------------
(* Properties of the session (Spec: interleaved calls on one object;       *)
(* SpecSeq: sequential calls, the program run again for other URLs).       *)

Finished(t) == pc[t] = "done"

NavigationSteps == {"goto", "wait_for_load_state"}

(* C1: every failure inside a tool operation is contained: whatever        *)
(* collaborator step fails, the call returns a result and raises nothing.  *)
C1_EveryFailureContained ==
    \A t \in Tasks : Finished(t) => res[t].status = "returned"

(* what the caller of get_interactable_elements gets *)
CallerSees(t) == [raised |-> res[t].status = "raised",
                  elements |-> res[t].elements]

(* a successful scan of a page none of whose elements qualifies *)
NothingFound ==
    [raised |-> FALSE,
     elements |-> elements_returned(TRUE, <<DivPlain, Hidden(Select)>>)]

(* C2: when the evaluation fails during get_interactable_elements the call *)
(* raises nothing and returns the empty list, as a scan of a page without  *)
(* qualifying elements does.                                               *)
C2_FailedScanReturnsEmpty ==
    \A t \in Tasks :
        Finished(t) /\ op[t] = "get_interactable_elements"
                    /\ "evaluate" \in res[t].failed
            => CallerSees(t) = NothingFound

C2_Witness ==
    \E t \in Tasks :
        /\ Finished(t)
        /\ op[t] = "get_interactable_elements"
        /\ "evaluate" \in res[t].failed
        /\ <<"error", "Error getting elements">> \in log

(* the hostname of a URL, as the claim has it: that of the URL *)
HostOf(u) == u.host

(* C7 as stated: calls on pages of one hostname return one path, calls on  *)
(* pages of different hostnames return different paths.                    *)
C7_PathPerHostname ==
    \A a, b \in shots :
        /\ HostOf(a.url) = HostOf(b.url) => a.path = b.path
        /\ HostOf(a.url) # HostOf(b.url) => a.path # b.path

(* the directory of a capture: the hostname, or unknown_host without one *)
HostDirectory(u) == IF u.host = "" THEN "unknown_host" ELSE u.host

CapturedFiles == {p \in DOMAIN fs : fs[p].kind = "file"}

(* C7, amended: take_screenshot returns                                    *)
(* <working-directory>/assets/<dir>/screenshot.png where dir is the        *)
(* hostname of the page's current URL, or unknown_host when that URL has   *)
(* none: calls with one dir return one path, the later overwriting the     *)
(* file, and calls with different dirs return different paths.             *)
C7_PathPerHostDirectory ==
    /\ \A a \in shots :
           /\ a.path = "/work/assets/" \o HostDirectory(a.url)
                           \o "/screenshot.png"
           /\ a.path \in CapturedFiles
    /\ \A a, b \in shots :
           HostDirectory(a.url) = HostDirectory(b.url) <=> a.path = b.path
    /\ Cardinality(CapturedFiles)
           = Cardinality({HostDirectory(a.url) : a \in shots})

(* two captures of one host on different ports share the path *)
C7_Witness ==
    \E a, b \in shots :
        /\ a.url # b.url
        /\ a.url.host = b.url.host
        /\ a.url.host # ""
        /\ a.path = b.path
        /\ Cardinality(CapturedFiles) = 1

(* C8: a failed navigation or load-state wait is only logged as a warning: *)
(* the call goes on into the tool's body with the flag set, never ends by  *)
(* that exception, and returns a result when nothing else fails.           *)
C8_NavigationFailureOnlyLogged ==
    \A t \in Tasks :
        res[t].failed \cap NavigationSteps # {} =>
            /\ pc[t] \in {"screenshot", "evaluate", "title", "done"}
            /\ initialized
            /\ \E e \in log : e[1] = "warning"
            /\ res[t].src \notin NavigationSteps
            /\ Finished(t) /\ res[t].failed \subseteq NavigationSteps
                   => res[t].status = "returned"

C8_Witness ==
    \E t \in Tasks :
        /\ Finished(t)
        /\ res[t].status = "returned"
        /\ "goto" \in res[t].failed
        /\ pages[tgt[t]].url = Blank

InBody(t) == pc[t] \in {"screenshot", "evaluate", "title"}

(* C9: in every sequence of sequential calls the first call launches and   *)
(* navigates, no later call launches or navigates again, and a call uses   *)
(* the page only after initialisation has completed.                       *)
C9_LaunchedByFirstCallOnly ==
    /\ nStarted <= 1
    /\ nLaunched <= 1
    /\ Len(pages) <= 1
    /\ \A t \in Tasks : InBody(t) => initialized /\ page # 0

(* C10: at most one browser and one page are ever created for one object,  *)
(* also when calls interleave inside _ensure_initialized.                  *)
C10_OneBrowserOnePage ==
    /\ Len(pages) <= 1
    /\ nLaunched <= 1

====
